---- MODULE Spec2Model ----
(***************************************************************************)
(* Dorothea (invisible_cities/cities/dorothea.py): the file loop, the      *)
(* event loop, the counters nevt_in / nevt_out, the event cap nmax and the *)
(* output sink, together with the event selection the event loop calls.    *)
(*                                                                         *)
(* dorothea.py is the only module of the package at hand.  The selection   *)
(* (select_event and what it is made of) and City.max_events_reached live  *)
(* in base_cities.py; they are written here after sections 4.1-4.4 of the  *)
(* specification.                                                          *)
(***************************************************************************)
EXTENDS Integers, Sequences, FiniteSets, TLC

\* ------------------------------------------------------------------ bounds
MaxFiles == 3
MaxEvts == 2
MaxEntries == 4
MaxNmax == 2
MaxAmp == 5

\* ------------------------------------------------------- small utilities
None == [none |-> TRUE]

EmptyMap == << >>

Max2(a, b) == IF a >= b THEN a ELSE b

\* dict.get(key, {}) of Python: the entry, or the empty map for a missing key
Get(d, k) == IF k \in DOMAIN d THEN d[k] ELSE EmptyMap

\* the keys of a peak map in ascending order
RECURSIVE SortedIds(_)
SortedIds(S) ==
    IF S = {} THEN << >>
    ELSE LET m == CHOOSE x \in S : \A y \in S : x <= y
         IN  <<m>> \o SortedIds(S \ {m})

\* ----------------------------------------------------------- configuration
\* The criteria of the run, as DOROTHEA hands them to Dorothea.  S2_Nmax is
\* a variable of the model (see Init); the other values are fixed and finite
\* so that both sides of every bound are inhabited.
CFP == [drift_v |-> 2,
        S1_Emin |-> 1, S1_Emax |-> 4, S1_Lmin |-> 0, S1_Lmax |-> 1,
        S1_Hmin |-> 1, S1_Hmax |-> 3, S1_Ethr |-> 0,
        S2_Emin |-> 2, S2_Emax |-> 6, S2_Lmin |-> 0, S2_Lmax |-> 2,
        S2_Hmin |-> 1, S2_Hmax |-> 4, S2_NSIPMmin |-> 1, S2_NSIPMmax |-> 2,
        S2_Ethr |-> 0]

\* variant of S1Criteria: the S1 multiplicity bound left at two peaks
S1CriteriaUpToTwo ==
    [Nmin |-> 1, Nmax |-> 2,
     Emin |-> CFP.S1_Emin, Emax |-> CFP.S1_Emax,
     Lmin |-> CFP.S1_Lmin, Lmax |-> CFP.S1_Lmax,
     Hmin |-> CFP.S1_Hmin, Hmax |-> CFP.S1_Hmax,
     Ethr |-> CFP.S1_Ethr, isS2 |-> FALSE,
     NSIPMmin |-> 0, NSIPMmax |-> 0]

\* S12SelectorCity.__init__ as called by Dorothea.__init__: S1 multiplicity
\* is pinned to [1, 1]
S1Criteria ==
    [Nmin |-> 1, Nmax |-> 1,
     Emin |-> CFP.S1_Emin, Emax |-> CFP.S1_Emax,
     Lmin |-> CFP.S1_Lmin, Lmax |-> CFP.S1_Lmax,
     Hmin |-> CFP.S1_Hmin, Hmax |-> CFP.S1_Hmax,
     Ethr |-> CFP.S1_Ethr, isS2 |-> FALSE,
     NSIPMmin |-> 0, NSIPMmax |-> 0]

\* variant of S2Criteria: S2_Nmax not handed on as the multiplicity bound
S2CriteriaNoNmax(S2_Nmax) ==
    [Nmin |-> 1, Nmax |-> S2_Nmax + 1,
     Emin |-> CFP.S2_Emin, Emax |-> CFP.S2_Emax,
     Lmin |-> CFP.S2_Lmin, Lmax |-> CFP.S2_Lmax,
     Hmin |-> CFP.S2_Hmin, Hmax |-> CFP.S2_Hmax,
     Ethr |-> CFP.S2_Ethr, isS2 |-> TRUE,
     NSIPMmin |-> CFP.S2_NSIPMmin, NSIPMmax |-> CFP.S2_NSIPMmax]

\* variant of S2Criteria: S2_Emax and S2_Hmax handed on in each other's place
S2CriteriaEmaxHmaxSwapped(S2_Nmax) ==
    [Nmin |-> 1, Nmax |-> S2_Nmax,
     Emin |-> CFP.S2_Emin, Emax |-> CFP.S2_Hmax,
     Lmin |-> CFP.S2_Lmin, Lmax |-> CFP.S2_Lmax,
     Hmin |-> CFP.S2_Hmin, Hmax |-> CFP.S2_Emax,
     Ethr |-> CFP.S2_Ethr, isS2 |-> TRUE,
     NSIPMmin |-> CFP.S2_NSIPMmin, NSIPMmax |-> CFP.S2_NSIPMmax]

\* ... and S2 multiplicity to [1, S2_Nmax]
S2Criteria(S2_Nmax) ==
    [Nmin |-> 1, Nmax |-> S2_Nmax,
     Emin |-> CFP.S2_Emin, Emax |-> CFP.S2_Emax,
     Lmin |-> CFP.S2_Lmin, Lmax |-> CFP.S2_Lmax,
     Hmin |-> CFP.S2_Hmin, Hmax |-> CFP.S2_Hmax,
     Ethr |-> CFP.S2_Ethr, isS2 |-> TRUE,
     NSIPMmin |-> CFP.S2_NSIPMmin, NSIPMmax |-> CFP.S2_NSIPMmax]

\* ------------------------------------------------------------------ peaks
\* A peak is [t |-> start time, amp |-> amplitudes of its samples, one per
\* unit of time].  The S2Si entry of a peak is the sequence of the charges
\* its sensors integrated.

\* energy: the samples above the threshold, summed
RECURSIVE energy(_, _)
energy(amp, Ethr) ==
    IF amp = << >> THEN 0
    ELSE (IF Head(amp) > Ethr THEN Head(amp) ELSE 0) + energy(Tail(amp), Ethr)

NonZero(amp) == {i \in DOMAIN amp : amp[i] # 0}

\* width: the time span of the non-zero samples
width(amp) ==
    LET nz == NonZero(amp)
    IN  IF nz = {} THEN 0
        ELSE (CHOOSE i \in nz : \A j \in nz : j <= i)
             - (CHOOSE i \in nz : \A j \in nz : i <= j)

\* height: the largest amplitude
RECURSIVE height(_)
height(amp) == IF amp = << >> THEN 0 ELSE Max2(Head(amp), height(Tail(amp)))

\* n_sensors: the sensors with a non-zero charge
n_sensors(Si, pid) == Cardinality({i \in DOMAIN Get(Si, pid) : Get(Si, pid)[i] > 0})

InRange(x, lo, hi) == lo <= x /\ x <= hi

peak_passes(peak_map, Si, pid, c) ==
    /\ InRange(energy(peak_map[pid].amp, c.Ethr), c.Emin, c.Emax)
    /\ InRange(width(peak_map[pid].amp), c.Lmin, c.Lmax)
    /\ InRange(height(peak_map[pid].amp), c.Hmin, c.Hmax)
    /\ c.isS2 => InRange(n_sensors(Si, pid), c.NSIPMmin, c.NSIPMmax)

\* PeakFilter (4.1): the multiplicity of the raw map first, then each peak
filter_peaks(peak_map, Si, c) ==
    IF ~ InRange(Cardinality(DOMAIN peak_map), c.Nmin, c.Nmax)
    THEN [passes |-> FALSE, passing_ids |-> << >>]
    ELSE [passes |-> TRUE,
          passing_ids |-> SortedIds({pid \in DOMAIN peak_map :
                                         peak_passes(peak_map, Si, pid, c)})]

Take(s, n) == IF Len(s) <= n THEN s ELSE SubSeq(s, 1, n)

\* EventReducer (4.2)
reduce(S1, S2, s1_passing, s2_passing, S2_Nmax, drift_v) ==
    IF Len(s1_passing) # 1 THEN None
    ELSE IF Len(s2_passing) = 0 THEN None
    ELSE LET kept == Take(s2_passing, S2_Nmax)
         IN  [S1 |-> s1_passing[1],
              S2 |-> kept,
              drift |-> [i \in DOMAIN kept |->
                            (S2[kept[i]].t - S1[s1_passing[1]].t) * drift_v]]

\* EventSelector (4.3)
select_event(evt_number, evt_time, S1, S2, Si, S2_Nmax) ==
    LET f1 == filter_peaks(S1, EmptyMap, S1Criteria)
        f2 == filter_peaks(S2, Si, S2Criteria(S2_Nmax))
    IN  IF ~ f1.passes \/ ~ f2.passes THEN None
        ELSE LET r == reduce(S1, S2, f1.passing_ids, f2.passing_ids,
                             S2_Nmax, CFP.drift_v)
             IN  IF r = None THEN None
                 ELSE [event |-> evt_number, time |-> evt_time,
                       S1 |-> r.S1, S2 |-> r.S2, drift |-> r.drift]

\* City.max_events_reached (4.4): nmax < 0 is "no cap"
max_events_reached(nmax, nevt_in) == nmax >= 0 /\ nevt_in >= nmax

\* `if evt:` of the event loop, the truth value Python gives evt: None is
\* false, so is a container without content, any other object is true
Truthy(evt) == evt # None /\ DOMAIN evt # {}

\* write_kr(evt): the sink appends
write_kr(sink, evt) == Append(sink, evt)

\* ------------------------------------------------------------ input files
\* What load_pmaps and get_event_numbers_and_timestamps_from_file_name can
\* return for a file.  An event of the index is described by the peak maps
\* the loaded S1s / S2s / S2Sis hold under its number; has* = FALSE is an
\* event number that is no key of that dictionary.
S1good == [t |-> 1, amp |-> <<2>>]
S1big == [t |-> 2, amp |-> <<3, 2>>]
S2a == [t |-> 3, amp |-> <<3>>]
S2b == [t |-> 5, amp |-> <<2, 2>>]
OneSensor == <<1>>

\* what S1s can hold for an event: nothing, no peak, one peak (within or
\* above the energy bound), two peaks
S1Entries ==
    {[hasS1 |-> FALSE, S1 |-> EmptyMap]}
    \cup {[hasS1 |-> TRUE, S1 |-> m] :
             m \in {EmptyMap, 0 :> S1good, 0 :> S1big,
                    0 :> S1good @@ 1 :> S1good, 0 :> S1good @@ 1 :> S1big}}

\* what S2s and S2Sis can hold for it: nothing, one peak with or without its
\* sensors, two peaks
S2Entries ==
    {[hasS2 |-> FALSE, S2 |-> EmptyMap, hasSi |-> FALSE, Si |-> EmptyMap],
     [hasS2 |-> TRUE, S2 |-> 0 :> S2a, hasSi |-> TRUE, Si |-> 0 :> OneSensor],
     [hasS2 |-> TRUE, S2 |-> 0 :> S2a, hasSi |-> FALSE, Si |-> EmptyMap],
     [hasS2 |-> TRUE, S2 |-> 0 :> S2a @@ 1 :> S2b,
      hasSi |-> TRUE, Si |-> 0 :> OneSensor @@ 1 :> OneSensor]}

DriverEvents ==
    {[hasS1 |-> a.hasS1, S1 |-> a.S1, hasS2 |-> b.hasS2, S2 |-> b.S2,
      hasSi |-> b.hasSi, Si |-> b.Si] : a \in S1Entries, b \in S2Entries}

\* Peaks of every shape of amplitude up to MaxAmp and of up to the number of
\* samples that takes the width past the largest width bound, for the runs
\* that probe the bounds of the criteria: an S1 of any shape with a good S2,
\* an S2 of any shape and sensor charges with a good S1, and two S2 peaks
\* around the bounds.
PeakAmps == UNION {[1..n -> 0..MaxAmp] : n \in 1..(CFP.S2_Lmax + 2)}
SensorCharges == {<< >>, <<0>>, <<1>>, <<1, 1>>, <<1, 0, 1>>, <<1, 1, 1>>}
BoundaryAmps == {a \in PeakAmps : Len(a) = 2 /\ a[1] = 3}

FilterEvents ==
    {[hasS1 |-> TRUE, S1 |-> 0 :> [t |-> 1, amp |-> a],
      hasS2 |-> TRUE, S2 |-> 0 :> S2a,
      hasSi |-> TRUE, Si |-> 0 :> OneSensor] : a \in PeakAmps}
    \cup {[hasS1 |-> TRUE, S1 |-> 0 :> S1good,
           hasS2 |-> TRUE, S2 |-> 0 :> [t |-> 3, amp |-> a],
           hasSi |-> TRUE, Si |-> 0 :> q] : a \in PeakAmps, q \in SensorCharges}
    \cup {[hasS1 |-> TRUE, S1 |-> 0 :> S1good,
           hasS2 |-> TRUE,
           S2 |-> 0 :> [t |-> 3, amp |-> a] @@ 1 :> [t |-> 5, amp |-> b],
           hasSi |-> TRUE, Si |-> 0 :> OneSensor @@ 1 :> OneSensor] :
             a \in BoundaryAmps, b \in BoundaryAmps}

\* event numbers and timestamps of the index of the fi-th file
EvtNumber(fi, i) == 10 * fi + i
EvtTime(fi, i) == 100 * fi + i

\* the index get_event_numbers_and_timestamps_from_file_name returns for the
\* fi-th file when it holds n events
MkIndex(fi, n) ==
    [i \in 1..n |-> [evt_number |-> EvtNumber(fi, i), evt_time |-> EvtTime(fi, i)]]

\* The dictionaries load_pmaps returned are read at one key per iteration of
\* the event loop, the number of the event at hand; the model draws what they
\* hold under that key when it is read.  These are the dictionaries cut down
\* to that key.
S1sAt(e, evt_number) == IF e.hasS1 THEN evt_number :> e.S1 ELSE EmptyMap
S2sAt(e, evt_number) == IF e.hasS2 THEN evt_number :> e.S2 ELSE EmptyMap
S2SisAt(e, evt_number) == IF e.hasSi THEN evt_number :> e.Si ELSE EmptyMap

NoEvent == [hasS1 |-> FALSE, S1 |-> EmptyMap, hasS2 |-> FALSE, S2 |-> EmptyMap,
            hasSi |-> FALSE, Si |-> EmptyMap]

\* the exceptions _main_loop catches, and one it does not
EmptyFileErrors == {"ValueError", "NoSuchNodeError"}
OtherErrors == {"OSError"}

\* ------------------------------------------------------------------ state
VARIABLES
    nmax,           \* the argument of run
    S2_Nmax,        \* the configured S2 multiplicity bound
    nfiles,         \* len(self.input_files)
    pc,             \* where the run is
    fi,             \* position of `filename` in self.input_files (1-based)
    index,          \* zip(event_numbers, timestamps) of the current file
    ei,             \* entries of index consumed by _event_loop
    held,           \* what S1s, S2s, S2Sis hold for the event last drawn
    evt,            \* what select_event answered for it
    nevt_in,
    nevt_out,
    reached,        \* the flag max_events_reached of _event_loop / _main_loop
    sink,           \* the records handed to write_kr, in order
    summary,        \* what run printed, None before
    error,          \* the exception that left run, "" if none
    n_loads,        \* history: calls of load_pmaps
    last_load,      \* history: outcome of the latest load_pmaps
    n_index_reads,  \* history: calls of get_event_numbers_and_timestamps...
    n_entries,      \* history: index entries of the files loaded so far
    n_selects,      \* history: calls of select_event
    accepted,       \* history: the events select_event did not answer None to
    fault           \* what is wrong with the configuration, "none" if nothing

vars == <<nmax, S2_Nmax, nfiles, pc, fi, index, ei, held, evt, nevt_in,
          nevt_out, reached, sink, summary, error, n_loads, last_load,
          n_index_reads, n_entries, n_selects, accepted, fault>>

counters == <<nevt_in, nevt_out, reached, sink, n_selects, accepted>>
locals == <<index, ei, held, evt>>
config == <<nmax, S2_Nmax, nfiles, fault>>
report == <<summary, error>>
loads == <<n_loads, last_load, n_index_reads, n_entries>>

Init ==
    /\ nmax \in -1..MaxNmax
    /\ S2_Nmax \in {1, 2}
    /\ nfiles \in 0..MaxFiles
    /\ pc = "main"
    /\ fi = 1
    /\ index = << >>
    /\ ei = 0
    /\ held = NoEvent
    /\ evt = None
    /\ nevt_in = 0
    /\ nevt_out = 0
    /\ reached = FALSE
    /\ sink = << >>
    /\ summary = None
    /\ error = ""
    /\ n_loads = 0
    /\ last_load = ""
    /\ n_index_reads = 0
    /\ n_entries = 0
    /\ n_selects = 0
    /\ accepted = << >>
    /\ fault = "none"

\* ---------------------------------------------------------------- actions
\* variant of LoadPmaps: the counters are set to 0 for each file
LoadPmapsResets(n) ==
    /\ pc = "main"
    /\ fi <= nfiles
    /\ n_entries + n <= MaxEntries
    /\ pc' = "events"
    /\ index' = MkIndex(fi, n)
    /\ ei' = 0
    /\ reached' = FALSE
    /\ nevt_in' = 0
    /\ nevt_out' = 0
    /\ n_loads' = n_loads + 1
    /\ last_load' = "ok"
    /\ n_index_reads' = n_index_reads + 1
    /\ n_entries' = n_entries + n
    /\ UNCHANGED <<config, report, fi, held, evt, sink, n_selects, accepted>>

\* _main_loop, one iteration whose load_pmaps succeeds: the index (of n
\* entries) is read and _event_loop is entered
LoadPmaps(n) ==
    /\ pc = "main"
    /\ fi <= nfiles
    /\ n_entries + n <= MaxEntries
    /\ pc' = "events"
    /\ index' = MkIndex(fi, n)
    /\ ei' = 0
    /\ reached' = FALSE
    /\ n_loads' = n_loads + 1
    /\ last_load' = "ok"
    /\ n_index_reads' = n_index_reads + 1
    /\ n_entries' = n_entries + n
    /\ UNCHANGED <<config, report, fi, held, evt, nevt_in, nevt_out, sink,
                   n_selects, accepted>>

\* variant of SkipFile: the same file is tried again after the failure
SkipFileRetries(exc) ==
    /\ pc = "main"
    /\ fi <= nfiles
    /\ exc \in EmptyFileErrors
    /\ fi' = fi
    /\ n_loads' = n_loads
    /\ last_load' = exc
    /\ UNCHANGED <<config, report, counters, locals, pc, n_index_reads, n_entries>>

\* variant of SkipFile: break where the code has continue
SkipFileBreaks(exc) ==
    /\ pc = "main"
    /\ fi <= nfiles
    /\ exc \in EmptyFileErrors
    /\ pc' = "returned"
    /\ n_loads' = n_loads + 1
    /\ last_load' = exc
    /\ UNCHANGED <<config, report, counters, locals, fi, n_index_reads, n_entries>>

\* _main_loop, one iteration whose load_pmaps raises ValueError or
\* NoSuchNodeError: "Empty file. Skipping." and continue
SkipFile(exc) ==
    /\ pc = "main"
    /\ fi <= nfiles
    /\ exc \in EmptyFileErrors
    /\ fi' = fi + 1
    /\ n_loads' = n_loads + 1
    /\ last_load' = exc
    /\ UNCHANGED <<config, report, counters, locals, pc, n_index_reads, n_entries>>

\* variant of LoadFails: a bare except, every failure is an empty file
LoadFailsSwallowed(exc) ==
    /\ pc = "main"
    /\ fi <= nfiles
    /\ exc \notin EmptyFileErrors
    /\ fi' = fi + 1
    /\ n_loads' = n_loads + 1
    /\ last_load' = exc
    /\ UNCHANGED <<config, report, counters, locals, pc, n_index_reads, n_entries>>

\* _main_loop, one iteration whose load_pmaps raises anything else: nothing
\* catches it, neither in _main_loop nor in run
LoadFails(exc) ==
    /\ pc = "main"
    /\ fi <= nfiles
    /\ exc \notin EmptyFileErrors
    /\ pc' = "failed"
    /\ error' = exc
    /\ n_loads' = n_loads + 1
    /\ last_load' = exc
    /\ UNCHANGED <<config, counters, locals, fi, summary, n_index_reads, n_entries>>

\* variant of LookupS1: the S1 is read from the S2 dictionary
LookupS1FromS2s(e, evt_number) == Get(S2sAt(e, evt_number), evt_number)

\* variant of LookupS1: the default is the S1 of the iteration before
LookupS1Stale(e, evt_number) ==
    IF evt_number \in DOMAIN S1sAt(e, evt_number)
    THEN S1sAt(e, evt_number)[evt_number]
    ELSE held.S1

\* S1 = S1s.get(evt_number, {}), and likewise S2 and Si
LookupS1(e, evt_number) == Get(S1sAt(e, evt_number), evt_number)
LookupS2(e, evt_number) == Get(S2sAt(e, evt_number), evt_number)
LookupSi(e, evt_number) == Get(S2SisAt(e, evt_number), evt_number)

\* evt = self.select_event(evt_number, evt_time, S1, S2, Si)
Selected(entry, e) ==
    select_event(entry.evt_number, entry.evt_time,
                 LookupS1(e, entry.evt_number),
                 LookupS2(e, entry.evt_number),
                 LookupSi(e, entry.evt_number),
                 S2_Nmax)

\* variant of LoopGoesOn: the break is missing
LoopGoesOnNoBreak == ei < Len(index)

\* the for loop of _event_loop goes on: an entry is left and no break was
\* taken
LoopGoesOn == ~ reached /\ ei < Len(index)

\* variant of Forward: write_kr(evt) dedented out of the if
ForwardWritesAlways(r) ==
    /\ nevt_out' = IF Truthy(r) THEN nevt_out + 1 ELSE nevt_out
    /\ sink' = write_kr(sink, r)

\* variant of Forward: write_kr(evt) once in the if and once after it
ForwardWritesAgain(r) ==
    /\ nevt_out' = IF Truthy(r) THEN nevt_out + 1 ELSE nevt_out
    /\ sink' = IF Truthy(r) THEN write_kr(write_kr(sink, r), r) ELSE sink

\* variant of Forward: nevt_out counts every event
ForwardCountsAll(r) ==
    /\ nevt_out' = IF Truthy(r) THEN nevt_out + 2 ELSE nevt_out + 1
    /\ sink' = IF Truthy(r) THEN write_kr(sink, r) ELSE sink

\* `if evt: nevt_out += 1; write_kr(evt)`
Forward(r) ==
    IF Truthy(r)
    THEN /\ nevt_out' = nevt_out + 1
         /\ sink' = write_kr(sink, r)
    ELSE UNCHANGED <<nevt_out, sink>>

\* variant of CapCheck: nevt_in compared with nmax in place, whatever its sign
CapCheckInPlace == reached' = (nevt_in' >= nmax)

\* variant of CapCheck: the cap compared with the events of this file
CapCheckPerFile == reached' = max_events_reached(nmax, ei')

\* `if self.max_events_reached(nmax, nevt_in): max_events_reached = True; break`
CapCheck == reached' = max_events_reached(nmax, nevt_in')

\* variant of EventStep: the cap is checked right after the count, before
\* select_event
EventStepChecksFirst(e) ==
    /\ pc = "events"
    /\ LoopGoesOn
    /\ ei' = ei + 1
    /\ held' = e
    /\ nevt_in' = nevt_in + 1
    /\ CapCheck
    /\ IF reached'
       THEN UNCHANGED <<n_selects, evt, nevt_out, sink, accepted>>
       ELSE /\ n_selects' = n_selects + 1
            /\ evt' = Selected(index[ei + 1], e)
            /\ Forward(evt')
            /\ accepted' = IF evt' # None THEN Append(accepted, evt') ELSE accepted
    /\ UNCHANGED <<config, report, loads, pc, fi, index>>

\* _event_loop, one iteration of the for loop
EventStep(e) ==
    /\ pc = "events"
    /\ LoopGoesOn
    /\ ei' = ei + 1
    /\ held' = e
    /\ nevt_in' = nevt_in + 1
    /\ n_selects' = n_selects + 1
    /\ evt' = Selected(index[ei + 1], e)
    /\ Forward(evt')
    /\ accepted' = IF evt' # None THEN Append(accepted, evt') ELSE accepted
    /\ CapCheck
    /\ UNCHANGED <<config, report, loads, pc, fi, index>>

\* variant of EventLoopReturns: _main_loop goes to the next file whatever
\* the flag _event_loop returned
EventLoopReturnsNoBreak ==
    /\ pc = "events"
    /\ ~ LoopGoesOn
    /\ index' = << >>
    /\ ei' = 0
    /\ held' = NoEvent
    /\ evt' = None
    /\ pc' = "main"
    /\ fi' = fi + 1
    /\ UNCHANGED <<config, report, loads, counters>>

\* _event_loop returns (index exhausted, or break) and _main_loop goes on:
\* "Max events reached" and break, or "OK" and the next file
EventLoopReturns ==
    /\ pc = "events"
    /\ ~ LoopGoesOn
    /\ index' = << >>
    /\ ei' = 0
    /\ held' = NoEvent
    /\ evt' = None
    /\ IF reached
       THEN pc' = "returned" /\ fi' = fi
       ELSE pc' = "main" /\ fi' = fi + 1
    /\ UNCHANGED <<config, report, loads, counters>>

\* the for loop of _main_loop is exhausted: return nevt_in, nevt_out
MainLoopReturns ==
    /\ pc = "main"
    /\ fi > nfiles
    /\ pc' = "returned"
    /\ UNCHANGED <<config, report, loads, counters, locals, fi>>

\* run, after _main_loop: print the counts and nevt_out / nevt_in, return
RunSummary ==
    /\ pc = "returned"
    /\ IF nevt_in = 0
       THEN pc' = "failed" /\ error' = "ZeroDivisionError" /\ summary' = summary
       ELSE /\ pc' = "done"
            /\ summary' = [nevt_in |-> nevt_in, nevt_out |-> nevt_out,
                           ratio |-> [num |-> nevt_out, den |-> nevt_in]]
            /\ error' = error
    /\ UNCHANGED <<config, loads, counters, locals, fi>>

\* DOROTHEA, after run: print the time per event, dt / nevt_in
DriverReport ==
    /\ pc = "done"
    /\ IF nevt_in = 0
       THEN pc' = "failed" /\ error' = "ZeroDivisionError"
       ELSE pc' = "exit" /\ error' = error
    /\ UNCHANGED <<config, loads, counters, locals, fi, summary>>

Next ==
    \/ \E n \in 0..MaxEvts : LoadPmaps(n)
    \/ \E exc \in EmptyFileErrors : SkipFile(exc)
    \/ \E exc \in OtherErrors : LoadFails(exc)
    \/ \E e \in DriverEvents : EventStep(e)
    \/ EventLoopReturns
    \/ MainLoopReturns
    \/ RunSummary
    \/ DriverReport

Spec == Init /\ [][Next]_vars

\* Runs over one file of one event drawn from FilterEvents, without cap
InitFilter == Init /\ nmax = -1 /\ nfiles = 1

NextFilter ==
    \/ LoadPmaps(1)
    \/ LoopGoesOn /\ \E e \in FilterEvents : EventStep(e)
    \/ EventLoopReturns
    \/ MainLoopReturns
    \/ RunSummary
    \/ DriverReport

SpecFilter == InitFilter /\ [][NextFilter]_vars

\* ---------------------------------------------------- the DOROTHEA driver
\* Configurations DOROTHEA can be given: a good one, one without S1_EMIN,
\* one whose S1_EMIN is text, one whose S2_NMAX is text
ConfigFaults == {"none", "S1_EMIN missing", "S1_EMIN text", "S2_NMAX text"}

\* DOROTHEA up to the call of run: the parameters are read off CFP and the
\* city is built.  A parameter that CFP lacks is an AttributeError; text
\* times units.pes is a TypeError; S1_LMIN, S1_LMAX, S2_NMAX, S2_LMIN,
\* S2_LMAX, S2_NSIPMMIN and S2_NSIPMMAX are handed on as they are, and
\* Dorothea.__init__ hands every parameter on to the criteria as it is.
Construct ==
    /\ pc = "start"
    /\ IF fault = "S1_EMIN missing"
       THEN pc' = "failed" /\ error' = "AttributeError"
       ELSE IF fault = "S1_EMIN text"
       THEN pc' = "failed" /\ error' = "TypeError"
       ELSE pc' = "main" /\ error' = error
    /\ UNCHANGED <<config, loads, counters, locals, fi, summary>>

\* the multiplicity check of the S2 filter, Nmin <= len(S2) <= Nmax with
\* Nmin = 1, compares len(S2) with S2_Nmax once 1 <= len(S2) holds: with
\* text for S2_Nmax that comparison is a TypeError
Raises(e) ==
    /\ fault = "S2_NMAX text"
    /\ Cardinality(DOMAIN LookupS2(e, index[ei + 1].evt_number)) >= 1

\* _event_loop, an iteration in which select_event raises: the event was
\* counted, the exception leaves _event_loop, _main_loop and run
EventRaises(e) ==
    /\ pc = "events"
    /\ LoopGoesOn
    /\ Raises(e)
    /\ ei' = ei + 1
    /\ held' = e
    /\ nevt_in' = nevt_in + 1
    /\ n_selects' = n_selects + 1
    /\ pc' = "failed"
    /\ error' = "TypeError"
    /\ UNCHANGED <<config, loads, fi, index, evt, nevt_out, reached, sink,
                   accepted, summary>>

InitConfig ==
    /\ nmax = -1
    /\ S2_Nmax = 1
    /\ nfiles \in 0..MaxFiles
    /\ fault \in ConfigFaults
    /\ pc = "start"
    /\ fi = 1
    /\ index = << >>
    /\ ei = 0
    /\ held = NoEvent
    /\ evt = None
    /\ nevt_in = 0
    /\ nevt_out = 0
    /\ reached = FALSE
    /\ sink = << >>
    /\ summary = None
    /\ error = ""
    /\ n_loads = 0
    /\ last_load = ""
    /\ n_index_reads = 0
    /\ n_entries = 0
    /\ n_selects = 0
    /\ accepted = << >>

NextConfig ==
    \/ Construct
    \/ \E n \in 0..MaxEvts : LoadPmaps(n)
    \/ \E exc \in EmptyFileErrors : SkipFile(exc)
    \/ \E exc \in OtherErrors : LoadFails(exc)
    \/ LoopGoesOn /\ \E e \in DriverEvents : ~ Raises(e) /\ EventStep(e)
    \/ LoopGoesOn /\ \E e \in DriverEvents : EventRaises(e)
    \/ EventLoopReturns
    \/ MainLoopReturns
    \/ RunSummary
    \/ DriverReport

SpecConfig == InitConfig /\ [][NextConfig]_vars

\* The program is one sequential thread: while a statement is left to run,
\* one runs.  No step waits on anything but the synchronous calls it makes.
FairSpec == Spec /\ WF_vars(Next)

\* ================================================================ claims
\* the event the last iteration of _event_loop drew, where there is one
AfterEvent == pc = "events" /\ ei >= 1
HeldS1 == LookupS1(held, index[ei].evt_number)
HeldS2 == LookupS2(held, index[ei].evt_number)
HeldSi == LookupSi(held, index[ei].evt_number)
PassingS1 == {pid \in DOMAIN HeldS1 : peak_passes(HeldS1, EmptyMap, pid, S1Criteria)}
PassingS2 == {pid \in DOMAIN HeldS2 :
                 peak_passes(HeldS2, HeldSi, pid, S2Criteria(S2_Nmax))}
MainLoopOver == pc \in {"returned", "done", "exit"}

\* C1: in every state of a run, whatever files were loaded or skipped and
\* whether or not the run stopped early, 0 <= nevt_out <= nevt_in.
C1_CountersOrdered == 0 <= nevt_out /\ nevt_out <= nevt_in

\* a run that skipped a file, rejected an event, accepted another and
\* stopped at the cap
C1_Witness ==
    /\ reached
    /\ n_loads > n_index_reads
    /\ 1 <= nevt_out
    /\ nevt_out < nevt_in

\* C2: with a cap nmax >= 1 and loaded files that hold at least nmax index
\* entries between them, the main loop ends with nevt_in = nmax, the events
\* being counted across the files.
C2_CapCountsAcrossFiles ==
    (MainLoopOver /\ nmax >= 1 /\ n_entries >= nmax) => nevt_in = nmax

\* the cap of 2 met in the second loaded file, a skipped file in between
C2_Witness ==
    /\ pc = "returned"
    /\ nmax = 2
    /\ nevt_in = 2
    /\ n_index_reads = 2
    /\ n_loads = 3
    /\ n_entries = 3

\* C3: once nevt_in has reached the cap, the driver stays in MAX_REACHED:
\* no select_event, no load_pmaps, no index read, no write to the sink, and
\* nevt_in and nevt_out keep their values.
C3_MaxReachedIsFinal ==
    [][(reached \/ (nmax >= 1 /\ nevt_in >= nmax))
         => /\ reached'
            /\ UNCHANGED <<nevt_in, nevt_out, sink, n_selects, n_loads,
                           n_index_reads>>]_vars

\* the run is over at the cap with entries of the current file and files of
\* the list left untouched
C3_Witness ==
    /\ pc = "exit"
    /\ reached
    /\ fi < nfiles
    /\ n_entries > nevt_in

\* C4: for every event of the event loop, a result of select_event other
\* than None adds one to nevt_out and is handed to the sink; None does
\* neither.
C4_ForwardIffNotNone ==
    [][nevt_in' # nevt_in
         => /\ evt' = Selected(index[ei + 1], held')
            /\ IF evt' # None
               THEN nevt_out' = nevt_out + 1 /\ sink' = Append(sink, evt')
               ELSE nevt_out' = nevt_out /\ sink' = sink]_vars

\* an accepted event followed by a rejected one
C4_Witness ==
    /\ AfterEvent
    /\ evt = None
    /\ n_selects = 2
    /\ nevt_out = 1
    /\ Len(sink) = 1

\* C5: the sink holds the accepted events, each once, in processing order
\* (files in list order, events in index order), and nevt_out of them.
C5_SinkIsAcceptedInOrder ==
    /\ sink = accepted
    /\ Len(sink) = nevt_out
    /\ \A i, j \in DOMAIN sink : i < j => sink[i].event < sink[j].event
    /\ \A i \in DOMAIN sink :
          sink[i].event <= IF pc = "events" THEN EvtNumber(fi, ei)
                           ELSE EvtNumber(fi, MaxEvts)

\* two records from two files with a rejected event besides
C5_Witness ==
    /\ Len(sink) = 2
    /\ sink[1].event < EvtNumber(2, 0)
    /\ sink[2].event > EvtNumber(2, 0)
    /\ nevt_in > nevt_out

\* C6: a file whose load raises ValueError or NoSuchNodeError changes neither
\* nevt_in, nevt_out nor the sink, its index is not read, and the loop goes
\* on with the next name of the list, which can be loaded.
C6_EmptyFileIsSkipped ==
    /\ [][(n_loads' = n_loads + 1 /\ last_load' \in EmptyFileErrors)
            => /\ UNCHANGED <<nevt_in, nevt_out, sink, n_index_reads,
                              n_selects, n_entries>>
               /\ pc' = "main"
               /\ fi' = fi + 1]_vars
    /\ [](pc = "main" /\ last_load \in EmptyFileErrors /\ fi <= nfiles
            => ENABLED LoadPmaps(0))

\* only skipped files before the current one, whose events are processed
C6_Witness ==
    /\ AfterEvent
    /\ n_loads > n_index_reads
    /\ last_load = "ok"
    /\ n_index_reads = 1
    /\ nevt_in = ei

\* C7: a load that fails with anything but ValueError / NoSuchNodeError ends
\* the run: the exception leaves run, no file is loaded and no event
\* processed after it, and no summary is printed.
C7_OtherLoadFailureIsFatal ==
    [][/\ pc # "failed"
       /\ (n_loads' = n_loads + 1 /\ last_load' \notin EmptyFileErrors \cup {"ok"})
            => /\ pc' = "failed"
               /\ error' = last_load'
               /\ summary' = None
               /\ UNCHANGED <<fi, nevt_in, nevt_out, sink, n_index_reads,
                              n_selects>>]_vars

\* the run died on a load after events were counted, files still to come
C7_Witness ==
    /\ pc = "failed"
    /\ error \in OtherErrors
    /\ nevt_in >= 1
    /\ fi < nfiles
    /\ summary = None

\* C8: a run that ends with nevt_in = 0 completes: the summary is printed
\* with a guarded ratio and (0, 0) is returned; with nevt_in > 0 the ratio is
\* nevt_out / nevt_in.
C8_ZeroInputRunCompletes ==
    /\ pc = "failed" => error \in OtherErrors
    /\ (pc \in {"done", "exit"} /\ nevt_in = 0) => summary # None
    /\ (pc \in {"done", "exit"} /\ nevt_in > 0)
         => /\ summary # None
            /\ summary.ratio.num * nevt_in = nevt_out * summary.ratio.den

\* C9: an event whose S1 map, as looked up, has no peak or more than one is
\* counted in nevt_in, answered None, not counted in nevt_out and not
\* written, whatever S2s and S2Sis hold for it.
C9_S1MultiplicityRejects ==
    [][(nevt_in' # nevt_in
          /\ Cardinality(DOMAIN LookupS1(held', index[ei + 1].evt_number)) # 1)
         => /\ nevt_in' = nevt_in + 1
            /\ evt' = None
            /\ nevt_out' = nevt_out
            /\ sink' = sink]_vars

\* two S1 peaks, one of them within every bound, with an S2 that passes
C9_Witness ==
    /\ AfterEvent
    /\ Cardinality(DOMAIN HeldS1) = 2
    /\ Cardinality(PassingS1) = 1
    /\ Cardinality(PassingS2) = 1
    /\ evt = None
    /\ nevt_in = 1
    /\ nevt_out = 0
    /\ sink = << >>

\* the case of C10: S2_Nmax = 1, one S1 peak, which passes, and two S2 peaks,
\* which both pass
C10_Case ==
    /\ AfterEvent
    /\ S2_Nmax = 1
    /\ Cardinality(DOMAIN HeldS1) = 1
    /\ Cardinality(PassingS1) = 1
    /\ Cardinality(DOMAIN HeldS2) = 2
    /\ Cardinality(PassingS2) = 2

C11_NegativeCapIsNoCap ==
    nmax < 0
      => /\ ~ reached
         /\ nevt_in = n_entries - (Len(index) - ei)
         /\ pc # "events" => nevt_in = n_entries

\* a run without cap that went through two loaded files and a skipped one
C11_Witness ==
    /\ nmax < 0
    /\ pc = "exit"
    /\ nevt_in = MaxEntries
    /\ n_index_reads = 2
    /\ n_loads = 3
\* the peak maps the dictionaries hold for an event, {} for a missing key
RawS1(e) == IF e.hasS1 THEN e.S1 ELSE EmptyMap
RawS2(e) == IF e.hasS2 THEN e.S2 ELSE EmptyMap
RawSi(e) == IF e.hasSi THEN e.Si ELSE EmptyMap

\* C12: an event of the index that is no key of S1s, S2s or S2Sis is no
\* error: it is counted in nevt_in and select_event is called for it, with
\* the empty map in place of each missing entry.
C12_MissingKeyIsEmptyMap ==
    [][nevt_in' # nevt_in
         => /\ nevt_in' = nevt_in + 1
            /\ n_selects' = n_selects + 1
            /\ pc' = "events"
            /\ error' = ""
            /\ evt' = select_event(index[ei + 1].evt_number,
                                   index[ei + 1].evt_time,
                                   RawS1(held'), RawS2(held'), RawSi(held'),
                                   S2_Nmax)]_vars

\* an event in none of the three dictionaries, after an accepted one
C12_Witness ==
    /\ AfterEvent
    /\ ~ held.hasS1
    /\ ~ held.hasS2
    /\ ~ held.hasSi
    /\ nevt_in = 2
    /\ n_selects = 2
    /\ nevt_out = 1
    /\ evt = None
\* C13: every record written to the sink names one S1 id that is a key of
\* the event's S1 map as loaded (before any filter), between 1 and S2_Nmax
\* S2 ids, each a key of the event's S2 map, and one drift value per S2 id.
C13_AcceptedIdsAreKeys ==
    [][sink' # sink
         => LET r == sink'[Len(sink')]
            IN  /\ Len(sink') = Len(sink) + 1
                /\ r.event = index[ei + 1].evt_number
                /\ r.S1 \in DOMAIN RawS1(held')
                /\ Len(r.S2) \in 1..S2_Nmax
                /\ \A i \in DOMAIN r.S2 : r.S2[i] \in DOMAIN RawS2(held')
                /\ \A i, j \in DOMAIN r.S2 : i # j => r.S2[i] # r.S2[j]
                /\ DOMAIN r.drift = DOMAIN r.S2]_vars

\* a written record with two S2 ids and two drift values
C13_Witness ==
    /\ AfterEvent
    /\ sink # << >>
    /\ evt = sink[Len(sink)]
    /\ S2_Nmax = 2
    /\ Len(evt.S2) = 2
    /\ Len(evt.drift) = 2
    /\ evt.S1 \in DOMAIN RawS1(held)
\* C16: each event drawn from the index of a file adds exactly 1 to nevt_in
\* and 0 or 1 to nevt_out; every other step (a file loaded, a file skipped,
\* the event loop returning, the move to the next file, the summary) leaves
\* both counters as they are, so they are never decreased or reset in a run.
C16_CountersStepPerEvent ==
    [][IF pc = "events" /\ pc' = "events" /\ ei' = ei + 1
       THEN /\ nevt_in' = nevt_in + 1
            /\ nevt_out' \in {nevt_out, nevt_out + 1}
       ELSE /\ nevt_in' = nevt_in
            /\ nevt_out' = nevt_out]_vars

\* the third file entered with the counts of the first, the second skipped
C16_Witness ==
    /\ pc = "events"
    /\ fi = 3
    /\ ei = 0
    /\ n_loads = 3
    /\ n_index_reads = 2
    /\ nevt_in = 2
    /\ nevt_out = 1
\* C17: the cap is checked once per event, after the event was processed:
\* every counted event is followed by one check of nevt_in against nmax, and
\* the event whose count makes the check succeed was itself given to
\* select_event and, when accepted, counted in nevt_out and written to the
\* sink in the same iteration, before the driver is in MAX_REACHED.
C17_CapCheckedAfterEvent ==
    [][/\ nevt_in' # nevt_in => reached' = max_events_reached(nmax, nevt_in')
       /\ (~ reached /\ reached')
            => /\ nevt_in' = nevt_in + 1
               /\ nmax >= 1 => nevt_in' = nmax
               /\ n_selects' = n_selects + 1
               /\ evt' = select_event(index[ei + 1].evt_number,
                                      index[ei + 1].evt_time,
                                      RawS1(held'), RawS2(held'), RawSi(held'),
                                      S2_Nmax)
               /\ IF Truthy(evt')
                  THEN nevt_out' = nevt_out + 1 /\ sink' = Append(sink, evt')
                  ELSE nevt_out' = nevt_out /\ sink' = sink]_vars

\* the cap of 2 met by an event that was accepted and written
C17_Witness ==
    /\ pc = "events"
    /\ reached
    /\ nmax = 2
    /\ nevt_in = 2
    /\ n_selects = 2
    /\ nevt_out = 1
    /\ evt # None
    /\ sink = <<evt>>
\* C18 as stated: for every cap nmax >= 0, nmax = 0 included, nevt_in never
\* exceeds nmax.
C18_NeverAboveCap == nmax >= 0 => nevt_in <= nmax

\* C18: for every cap nmax >= 1 nevt_in never exceeds nmax; with nmax = 0
\* the event is counted before the cap is looked at, so nevt_in never
\* exceeds 1.
C18_NeverAboveCapOrOne == nmax >= 0 => nevt_in <= Max2(nmax, 1)

\* a run with cap 0 that ended having counted one event of two
C18_Witness ==
    /\ nmax = 0
    /\ pc = "exit"
    /\ nevt_in = 1
    /\ n_entries >= 2
    /\ n_index_reads = 1
\* _main_loop has returned through its break (MAX_REACHED) or through the
\* end of its for loop (DONE)
MaxReached == reached /\ fi <= nfiles /\ max_events_reached(nmax, nevt_in)
Done ==
    /\ ~ reached
    /\ fi = nfiles + 1
    /\ n_loads = nfiles
    /\ nevt_in = n_entries

\* C19: with finitely many input files of finitely many index entries each,
\* a run in which no load fails fatally comes to the end of the main loop,
\* and the main loop returns in exactly one of two ways: every file was
\* consumed or skipped (DONE), or the cap was reached (MAX_REACHED).
C19_MainLoopTerminates ==
    /\ <>(MainLoopOver \/ pc = "failed")
    /\ [](MainLoopOver => (Done /\ ~ MaxReached) \/ (MaxReached /\ ~ Done))
    /\ []((pc = "failed" /\ error \notin OtherErrors) => Done)

\* both ends of the main loop after a skipped file: the cap, and the end of
\* the list of files
C19_Witness ==
    /\ pc = "returned"
    /\ nfiles = MaxFiles
    /\ n_loads > n_index_reads
    /\ nevt_in = 2
    /\ Done
    /\ ENABLED RunSummary
\* the ids select_event's two filters let pass for the event at hand
PassingIdsS1 ==
    LET p == filter_peaks(HeldS1, EmptyMap, S1Criteria).passing_ids
    IN  {p[i] : i \in DOMAIN p}
PassingIdsS2 ==
    LET p == filter_peaks(HeldS2, HeldSi, S2Criteria(S2_Nmax)).passing_ids
    IN  {p[i] : i \in DOMAIN p}

\* the configured bounds, each taken as inclusive on both sides
S1WithinBounds(pk) ==
    /\ CFP.S1_Emin <= energy(pk.amp, CFP.S1_Ethr)
    /\ energy(pk.amp, CFP.S1_Ethr) <= CFP.S1_Emax
    /\ CFP.S1_Lmin <= width(pk.amp)
    /\ width(pk.amp) <= CFP.S1_Lmax
    /\ CFP.S1_Hmin <= height(pk.amp)
    /\ height(pk.amp) <= CFP.S1_Hmax
S2WithinBounds(pk, charges) ==
    /\ CFP.S2_Emin <= energy(pk.amp, CFP.S2_Ethr)
    /\ energy(pk.amp, CFP.S2_Ethr) <= CFP.S2_Emax
    /\ CFP.S2_Lmin <= width(pk.amp)
    /\ width(pk.amp) <= CFP.S2_Lmax
    /\ CFP.S2_Hmin <= height(pk.amp)
    /\ height(pk.amp) <= CFP.S2_Hmax
    /\ CFP.S2_NSIPMmin <= Cardinality({i \in DOMAIN charges : charges[i] > 0})
    /\ Cardinality({i \in DOMAIN charges : charges[i] > 0}) <= CFP.S2_NSIPMmax

\* C14: when the multiplicity check passes, a peak is in passing_ids if and
\* only if its energy, width, height and (S2 only) sensor count each lie
\* within the configured bounds, both ends included; the event is accepted
\* exactly when one S1 and at least one S2 are within them.
C14_BoundsAreInclusive ==
    AfterEvent
      => /\ Cardinality(DOMAIN HeldS1) = 1
              => \A pid \in DOMAIN HeldS1 :
                     pid \in PassingIdsS1 <=> S1WithinBounds(HeldS1[pid])
         /\ Cardinality(DOMAIN HeldS2) \in 1..S2_Nmax
              => \A pid \in DOMAIN HeldS2 :
                     pid \in PassingIdsS2
                       <=> S2WithinBounds(HeldS2[pid], Get(HeldSi, pid))
         /\ (Cardinality(DOMAIN HeldS1) = 1
               /\ Cardinality(DOMAIN HeldS2) \in 1..S2_Nmax)
              => (evt # None
                    <=> /\ \E pid \in DOMAIN HeldS1 : S1WithinBounds(HeldS1[pid])
                        /\ \E pid \in DOMAIN HeldS2 :
                               S2WithinBounds(HeldS2[pid], Get(HeldSi, pid)))

\* two S2 peaks: the one whose energy equals S2_Emax is kept, the one just
\* above it is not
C14_Witness ==
    /\ AfterEvent
    /\ S2_Nmax = 2
    /\ DOMAIN HeldS2 = {0, 1}
    /\ energy(HeldS2[0].amp, CFP.S2_Ethr) = CFP.S2_Emax
    /\ energy(HeldS2[1].amp, CFP.S2_Ethr) = CFP.S2_Emax + 1
    /\ height(HeldS2[1].amp) <= CFP.S2_Hmax
    /\ PassingIdsS2 = {0}
    /\ evt # None
    /\ evt.S2 = <<0>>
    /\ sink = <<evt>>
\* C15: when a configured criterion is missing or is no number, DOROTHEA
\* fails before any input file is opened and before any event is processed:
\* no load_pmaps, nevt_in = 0, nothing written, the run never started.
C15_ConfigFaultFailsFast ==
    fault # "none"
      => /\ n_loads = 0
         /\ nevt_in = 0
         /\ sink = << >>
====
